---- MODULE Spec2Model ----
(***************************************************************************)
(* State-machine model of ASAStakingContract                               *)
(* (projects/staking-contracts/smart_contracts/staking/contract.algo.ts).  *)
(*                                                                         *)
(* Every public method is one atomic application call.  A method is        *)
(* written as an operator that runs the method body on a ledger record and *)
(* returns [ok, s, itxn]: ok is FALSE when an assert or a uint64           *)
(* operation fails, s is the contract state at that point (writes made     *)
(* before a failure included) and itxn the inner transactions submitted.   *)
(* The AVM rejects the whole call on failure, so the action commits s only *)
(* when ok holds; a rejected call leaves every variable as it was.         *)
(*                                                                         *)
(* History variables: poolLedger is the pool balance computed in unbounded *)
(* integers from the amounts added, withdrawn and emitted; optedIn records *)
(* that an optInToAsset call has been committed, initialized that an       *)
(* initialize call has been committed; held is the amount of the staking   *)
(* asset the application account holds (companion transfers received minus *)
(* inner transfers sent) and emitted the sum of the amounts the            *)
(* accumulator advances have taken out of the pool.  audit, fixed by the    *)
(* initial state, tells which history is kept: the one of the calls        *)
(* (optedIn, initialized) under Spec, the one of the asset (held, emitted) *)
(* under SpecLedger; the contract takes the same steps under both.         *)
(* returned holds the value the last read-only query returned (the empty   *)
(* tuple before any query).                                                *)
(*                                                                         *)
(* Next holds the methods marked @abimethod.  getUserStakeInfo and         *)
(* storeUserStakeInfo are declared public as well, without the decorator   *)
(* (updateRewards and calculatePendingRewards are private): a public       *)
(* method of a Contract class is callable from outside, so NextPublic adds *)
(* the storeUserStakeInfo call, which checks nothing about its caller.     *)
(*                                                                         *)
(* A property of one call is stated on the result record of the method     *)
(* operator, for every input, in every reachable state: the action commits *)
(* exactly that record.                                                    *)
(*                                                                         *)
(* uint64 arithmetic is the AVM's: +, * fail on overflow, - fails on       *)
(* underflow, / fails on a zero divisor.  The width is scaled down to      *)
(* 0..UintMax so that these failures are reachable.  The read-only queries *)
(* multiply by the literals 52 and 100 of the code, which no state value   *)
(* of that scale survives; they take the largest uint64 as a parameter and *)
(* are applied, in SpecAPY, at the scale 0..ApyUintMax.                    *)
(***************************************************************************)
EXTENDS Integers, Sequences, FiniteSets, TLC

\* ---------------------------------------------------------------- bounds
\* largest value of the (scaled-down) uint64
UintMax == 4
\* last value of the clock
MaxTime == 2
\* largest amount of one stake transfer
MaxAmount == 2
\* largest value of the (scaled-down) uint64 where the queries are applied
ApyUintMax == 65535
\* largest weeklyRewards and totalStaked the queries are applied to
MaxApyWeekly == 13
MaxApyStaked == 10

\* ------------------------------------------------------------- constants
Users == {"alice"}
creatorAddress == "creator"
Accounts == {creatorAddress} \cup Users
ZeroAddress == "zero"
NoAsset == 0
currentApplicationAddress == "app"
NoBox == [exists |-> FALSE]

Fits(x) == x \in 0..UintMax

\* ---------------------------------------------------------------- state
VARIABLES asset, adminAddress, totalStaked, lastRewardTime, minimumStake,
          rewardPool, accumulatedRewardsPerShare, weeklyRewards, rewardPeriod,
          stakers, latestTimestamp, optedIn, initialized,
          poolLedger, returned, held, emitted, audit

ledgerVars == <<asset, adminAddress, totalStaked, lastRewardTime, minimumStake,
                rewardPool, accumulatedRewardsPerShare, weeklyRewards,
                rewardPeriod, stakers>>

vars == <<asset, adminAddress, totalStaked, lastRewardTime, minimumStake,
          rewardPool, accumulatedRewardsPerShare, weeklyRewards, rewardPeriod,
          stakers, latestTimestamp, optedIn, initialized,
          poolLedger, returned, held, emitted, audit>>

\* the contract state as one record, the form the method operators work on
Cur ==
  [asset |-> asset, adminAddress |-> adminAddress, totalStaked |-> totalStaked,
   lastRewardTime |-> lastRewardTime, minimumStake |-> minimumStake,
   rewardPool |-> rewardPool,
   accumulatedRewardsPerShare |-> accumulatedRewardsPerShare,
   weeklyRewards |-> weeklyRewards, rewardPeriod |-> rewardPeriod,
   stakers |-> stakers]

Ok(s, tx) == [ok |-> TRUE, s |-> s, itxn |-> tx]
Err(s) == [ok |-> FALSE, s |-> s, itxn |-> <<>>]

\* UserStakeInfo
UserStakeInfo(staked, first, last, earned, debt) ==
  [exists |-> TRUE, stakedAmount |-> staked, firstStakeTime |-> first,
   lastStakeTime |-> last, totalRewardsEarned |-> earned, rewardDebt |-> debt]

getUserStakeInfo(s, userAddress) ==
  IF s.stakers[userAddress].exists
  THEN s.stakers[userAddress]
  ELSE UserStakeInfo(0, 0, 0, 0, 0)

storeUserStakeInfo(s, userAddress, stakeInfo) ==
  [s EXCEPT !.stakers[userAddress] = stakeInfo]

\* updateRewards with a pool subtraction that wraps around instead of failing
updateRewards_wraps(s, currentTime) ==
  LET lastReward == s.lastRewardTime
      period == s.rewardPeriod
  IN
  IF ~Fits(lastReward + period) THEN [ok |-> FALSE, s |-> s]
  ELSE IF ~(currentTime >= lastReward + period /\ s.totalStaked > 0)
  THEN [ok |-> TRUE, s |-> s]
  ELSE IF period = 0 THEN [ok |-> FALSE, s |-> s]
  ELSE
    LET periodsPassed == (currentTime - lastReward) \div period
        totalRewards == s.weeklyRewards * periodsPassed
        acc == s.accumulatedRewardsPerShare + (totalRewards \div s.totalStaked)
    IN
    IF ~Fits(totalRewards) \/ ~Fits(acc) THEN [ok |-> FALSE, s |-> s]
    ELSE [ok |-> TRUE,
          s |-> [s EXCEPT !.accumulatedRewardsPerShare = acc,
                          !.lastRewardTime = lastReward + (periodsPassed * period),
                          !.rewardPool = (s.rewardPool - totalRewards) % (UintMax + 1)]]

\* updateRewards with a pool subtraction that stops at 0 instead of failing
updateRewards_saturates(s, currentTime) ==
  LET lastReward == s.lastRewardTime
      period == s.rewardPeriod
  IN
  IF ~Fits(lastReward + period) THEN [ok |-> FALSE, s |-> s]
  ELSE IF ~(currentTime >= lastReward + period /\ s.totalStaked > 0)
  THEN [ok |-> TRUE, s |-> s]
  ELSE IF period = 0 THEN [ok |-> FALSE, s |-> s]
  ELSE
    LET periodsPassed == (currentTime - lastReward) \div period
        totalRewards == s.weeklyRewards * periodsPassed
        acc == s.accumulatedRewardsPerShare + (totalRewards \div s.totalStaked)
    IN
    IF ~Fits(totalRewards) \/ ~Fits(acc) THEN [ok |-> FALSE, s |-> s]
    ELSE [ok |-> TRUE,
          s |-> [s EXCEPT !.accumulatedRewardsPerShare = acc,
                          !.lastRewardTime = lastReward + (periodsPassed * period),
                          !.rewardPool = IF s.rewardPool >= totalRewards
                                         THEN s.rewardPool - totalRewards ELSE 0]]

\* updateRewards that overwrites the accumulator with the new share instead of adding it
updateRewards_resetsAcc(s, currentTime) ==
  LET lastReward == s.lastRewardTime
      period == s.rewardPeriod
  IN
  IF ~Fits(lastReward + period) THEN [ok |-> FALSE, s |-> s]
  ELSE IF ~(currentTime >= lastReward + period /\ s.totalStaked > 0)
  THEN [ok |-> TRUE, s |-> s]
  ELSE IF period = 0 THEN [ok |-> FALSE, s |-> s]
  ELSE
    LET periodsPassed == (currentTime - lastReward) \div period
        totalRewards == s.weeklyRewards * periodsPassed
        acc == totalRewards \div s.totalStaked
    IN
    IF ~Fits(totalRewards) \/ ~Fits(s.rewardPool - totalRewards)
    THEN [ok |-> FALSE, s |-> s]
    ELSE [ok |-> TRUE,
          s |-> [s EXCEPT !.accumulatedRewardsPerShare = acc,
                          !.lastRewardTime = lastReward + (periodsPassed * period),
                          !.rewardPool = s.rewardPool - totalRewards]]

\* updateRewards that leaves lastRewardTime where it was
updateRewards_keepsTime(s, currentTime) ==
  LET lastReward == s.lastRewardTime
      period == s.rewardPeriod
  IN
  IF ~Fits(lastReward + period) THEN [ok |-> FALSE, s |-> s]
  ELSE IF ~(currentTime >= lastReward + period /\ s.totalStaked > 0)
  THEN [ok |-> TRUE, s |-> s]
  ELSE IF period = 0 THEN [ok |-> FALSE, s |-> s]
  ELSE
    LET periodsPassed == (currentTime - lastReward) \div period
        totalRewards == s.weeklyRewards * periodsPassed
        acc == s.accumulatedRewardsPerShare + (totalRewards \div s.totalStaked)
    IN
    IF ~Fits(totalRewards) \/ ~Fits(acc) \/ ~Fits(s.rewardPool - totalRewards)
    THEN [ok |-> FALSE, s |-> s]
    ELSE [ok |-> TRUE,
          s |-> [s EXCEPT !.accumulatedRewardsPerShare = acc,
                          !.rewardPool = s.rewardPool - totalRewards]]

\* updateRewards that takes out of the pool only what the truncating division
\* hands to the stakers (rewardPerShare * totalStaked) instead of totalRewards
updateRewards_deductsDistributed(s, currentTime) ==
  LET lastReward == s.lastRewardTime
      period == s.rewardPeriod
  IN
  IF ~Fits(lastReward + period) THEN [ok |-> FALSE, s |-> s]
  ELSE IF ~(currentTime >= lastReward + period /\ s.totalStaked > 0)
  THEN [ok |-> TRUE, s |-> s]
  ELSE IF period = 0 THEN [ok |-> FALSE, s |-> s]
  ELSE
    LET periodsPassed == (currentTime - lastReward) \div period
        totalRewards == s.weeklyRewards * periodsPassed
        rewardPerShare == totalRewards \div s.totalStaked
        acc == s.accumulatedRewardsPerShare + rewardPerShare
    IN
    IF ~Fits(totalRewards) \/ ~Fits(acc) \/ ~Fits(s.rewardPool - totalRewards)
    THEN [ok |-> FALSE, s |-> s]
    ELSE [ok |-> TRUE,
          s |-> [s EXCEPT !.accumulatedRewardsPerShare = acc,
                          !.lastRewardTime = lastReward + (periodsPassed * period),
                          !.rewardPool = s.rewardPool - rewardPerShare * s.totalStaked]]

\* updateRewards: returns [ok, s]
updateRewards(s, currentTime) ==
  LET lastReward == s.lastRewardTime
      period == s.rewardPeriod
  IN
  IF ~Fits(lastReward + period) THEN [ok |-> FALSE, s |-> s]
  ELSE IF ~(currentTime >= lastReward + period /\ s.totalStaked > 0)
  THEN [ok |-> TRUE, s |-> s]
  ELSE IF period = 0 THEN [ok |-> FALSE, s |-> s]
  ELSE
    LET periodsPassed == (currentTime - lastReward) \div period
        totalRewards == s.weeklyRewards * periodsPassed
    IN
    IF ~Fits(totalRewards) THEN [ok |-> FALSE, s |-> s]
    ELSE
      LET rewardPerShare == totalRewards \div s.totalStaked
          acc == s.accumulatedRewardsPerShare + rewardPerShare
      IN
      IF ~Fits(acc) THEN [ok |-> FALSE, s |-> s]
      ELSE
        LET s1 == [s EXCEPT !.accumulatedRewardsPerShare = acc]
            s2 == [s1 EXCEPT !.lastRewardTime = lastReward + (periodsPassed * period)]
        IN
        IF ~Fits(s2.rewardPool - totalRewards) THEN [ok |-> FALSE, s |-> s2]
        ELSE [ok |-> TRUE, s |-> [s2 EXCEPT !.rewardPool = s2.rewardPool - totalRewards]]

\* calculatePendingRewards: returns [ok, v] (the uint64 product can overflow)
calculatePendingRewards(s, userAddress) ==
  LET stakeInfo == getUserStakeInfo(s, userAddress)
      totalEarned == stakeInfo.stakedAmount * s.accumulatedRewardsPerShare
  IN
  IF stakeInfo.stakedAmount = 0 THEN [ok |-> TRUE, v |-> 0]
  ELSE IF ~Fits(totalEarned) THEN [ok |-> FALSE, v |-> 0]
  ELSE [ok |-> TRUE,
        v |-> IF totalEarned > stakeInfo.rewardDebt
              THEN totalEarned - stakeInfo.rewardDebt
              ELSE 0]

\* ------------------------------------------------------- public methods
initialize(s, sender, now, assetArg, adminArg, minimumStakeArg, weeklyRewardsArg, rewardPeriodArg) ==
  IF s.asset # NoAsset THEN Err(s)
  ELSE IF sender # creatorAddress THEN Err(s)
  ELSE Ok([s EXCEPT !.asset = assetArg,
                    !.adminAddress = adminArg,
                    !.totalStaked = 0,
                    !.lastRewardTime = now,
                    !.minimumStake = minimumStakeArg,
                    !.rewardPool = 0,
                    !.accumulatedRewardsPerShare = 0,
                    !.weeklyRewards = weeklyRewardsArg,
                    !.rewardPeriod = rewardPeriodArg], <<>>)

\* the inner transaction is a 0-amount transfer of the asset to the
\* application itself; the ledger rejects it when the asset does not exist
optInToAsset(s, sender) ==
  IF ~(sender = creatorAddress \/ sender = s.adminAddress) THEN Err(s)
  ELSE IF s.asset = NoAsset THEN Err(s)
  ELSE Ok(s, <<[assetReceiver |-> currentApplicationAddress,
                assetAmount |-> 0, xferAsset |-> s.asset]>>)

\* companionOk without the check that the amount is positive
companionOk_anyAmount(s, g) ==
  /\ g.groupSize = 2
  /\ g.type = "axfer"
  /\ g.assetReceiver = currentApplicationAddress
  /\ g.xferAsset = s.asset

\* the checks on the companion transfer shared by stake and addRewards
companionOk(s, g) ==
  /\ g.groupSize = 2
  /\ g.type = "axfer"
  /\ g.assetReceiver = currentApplicationAddress
  /\ g.assetAmount > 0
  /\ g.xferAsset = s.asset

\* stake that leaves the caller's rewardDebt where it was
stake_keepsDebt(s, sender, now, g) ==
  IF s.asset = NoAsset THEN Err(s)
  ELSE IF ~companionOk(s, g) THEN Err(s)
  ELSE
    LET stakeAmount == g.assetAmount
        info0 == getUserStakeInfo(s, sender)
        isNew == info0.stakedAmount = 0
        info1 == IF isNew THEN [info0 EXCEPT !.firstStakeTime = now] ELSE info0
        newStaked == info1.stakedAmount + stakeAmount
        info2 == [info1 EXCEPT !.stakedAmount = newStaked, !.lastStakeTime = now]
        s1 == storeUserStakeInfo(s, sender, info2)
    IN
    IF isNew /\ ~(stakeAmount >= s.minimumStake) THEN Err(s)
    ELSE IF ~Fits(newStaked) THEN Err(s)
    ELSE IF ~Fits(s1.totalStaked + stakeAmount) THEN Err(s1)
    ELSE Ok([s1 EXCEPT !.totalStaked = s1.totalStaked + stakeAmount], <<>>)

\* stake that leaves the caller's lastStakeTime where it was
stake_keepsLastTime(s, sender, now, g) ==
  IF s.asset = NoAsset THEN Err(s)
  ELSE IF ~companionOk(s, g) THEN Err(s)
  ELSE
    LET stakeAmount == g.assetAmount
        info0 == getUserStakeInfo(s, sender)
        isNew == info0.stakedAmount = 0
        info1 == IF isNew THEN [info0 EXCEPT !.firstStakeTime = now] ELSE info0
        newStaked == info1.stakedAmount + stakeAmount
        newDebt == newStaked * s.accumulatedRewardsPerShare
        info2 == [info1 EXCEPT !.stakedAmount = newStaked,
                               !.rewardDebt = newDebt]
        s1 == storeUserStakeInfo(s, sender, info2)
    IN
    IF isNew /\ ~(stakeAmount >= s.minimumStake) THEN Err(s)
    ELSE IF ~Fits(newStaked) THEN Err(s)
    ELSE IF ~Fits(newDebt) THEN Err(s)
    ELSE IF ~Fits(s1.totalStaked + stakeAmount) THEN Err(s1)
    ELSE Ok([s1 EXCEPT !.totalStaked = s1.totalStaked + stakeAmount], <<>>)

\* stake without the minimum check on a new stake
stake_noMinimum(s, sender, now, g) ==
  IF s.asset = NoAsset THEN Err(s)
  ELSE IF ~companionOk(s, g) THEN Err(s)
  ELSE
    LET stakeAmount == g.assetAmount
        info0 == getUserStakeInfo(s, sender)
        isNew == info0.stakedAmount = 0
        info1 == IF isNew THEN [info0 EXCEPT !.firstStakeTime = now] ELSE info0
        newStaked == info1.stakedAmount + stakeAmount
        newDebt == newStaked * s.accumulatedRewardsPerShare
        info2 == [info1 EXCEPT !.stakedAmount = newStaked,
                               !.lastStakeTime = now,
                               !.rewardDebt = newDebt]
        s1 == storeUserStakeInfo(s, sender, info2)
    IN
    IF ~Fits(newStaked) THEN Err(s)
    ELSE IF ~Fits(newDebt) THEN Err(s)
    ELSE IF ~Fits(s1.totalStaked + stakeAmount) THEN Err(s1)
    ELSE Ok([s1 EXCEPT !.totalStaked = s1.totalStaked + stakeAmount], <<>>)

\* stake that stores the low bits of an overflowing rewardDebt instead of failing
stake_wrapsDebt(s, sender, now, g) ==
  IF s.asset = NoAsset THEN Err(s)
  ELSE IF ~companionOk(s, g) THEN Err(s)
  ELSE
    LET stakeAmount == g.assetAmount
        info0 == getUserStakeInfo(s, sender)
        isNew == info0.stakedAmount = 0
        info1 == IF isNew THEN [info0 EXCEPT !.firstStakeTime = now] ELSE info0
        newStaked == info1.stakedAmount + stakeAmount
        newDebt == (newStaked * s.accumulatedRewardsPerShare) % (UintMax + 1)
        info2 == [info1 EXCEPT !.stakedAmount = newStaked,
                               !.lastStakeTime = now,
                               !.rewardDebt = newDebt]
        s1 == storeUserStakeInfo(s, sender, info2)
    IN
    IF isNew /\ ~(stakeAmount >= s.minimumStake) THEN Err(s)
    ELSE IF ~Fits(newStaked) THEN Err(s)
    ELSE IF ~Fits(s1.totalStaked + stakeAmount) THEN Err(s1)
    ELSE Ok([s1 EXCEPT !.totalStaked = s1.totalStaked + stakeAmount], <<>>)

stake(s, sender, now, g) ==
  IF s.asset = NoAsset THEN Err(s)
  ELSE IF ~companionOk(s, g) THEN Err(s)
  ELSE
    LET stakeAmount == g.assetAmount
        info0 == getUserStakeInfo(s, sender)
        isNew == info0.stakedAmount = 0
        info1 == IF isNew THEN [info0 EXCEPT !.firstStakeTime = now] ELSE info0
        newStaked == info1.stakedAmount + stakeAmount
        newDebt == newStaked * s.accumulatedRewardsPerShare
        info2 == [info1 EXCEPT !.stakedAmount = newStaked,
                               !.lastStakeTime = now,
                               !.rewardDebt = newDebt]
        s1 == storeUserStakeInfo(s, sender, info2)
    IN
    IF isNew /\ ~(stakeAmount >= s.minimumStake) THEN Err(s)
    ELSE IF ~Fits(newStaked) THEN Err(s)
    ELSE IF ~Fits(newDebt) THEN Err(s)
    ELSE IF ~Fits(s1.totalStaked + stakeAmount) THEN Err(s1)
    ELSE Ok([s1 EXCEPT !.totalStaked = s1.totalStaked + stakeAmount], <<>>)

\* withdraw that forgets to decrease totalStaked
withdraw_keepsTotal(s, sender, amount) ==
  LET info0 == getUserStakeInfo(s, sender)
      newStaked == info0.stakedAmount - amount
      newDebt == newStaked * s.accumulatedRewardsPerShare
      info1 == [info0 EXCEPT !.stakedAmount = newStaked, !.rewardDebt = newDebt]
      s1 == storeUserStakeInfo(s, sender, info1)
  IN
  IF ~(info0.stakedAmount > 0) THEN Err(s)
  ELSE IF ~(amount <= info0.stakedAmount) THEN Err(s)
  ELSE IF ~(amount > 0) THEN Err(s)
  ELSE IF amount < info0.stakedAmount /\ ~(newStaked >= s.minimumStake) THEN Err(s)
  ELSE IF ~Fits(newDebt) THEN Err(s)
  ELSE Ok(s1, <<[assetReceiver |-> sender, assetAmount |-> amount, xferAsset |-> s.asset]>>)

\* withdraw that deletes the caller's record when nothing is left
withdraw_dropsEmpty(s, sender, amount) ==
  LET info0 == getUserStakeInfo(s, sender)
      newStaked == info0.stakedAmount - amount
      newDebt == newStaked * s.accumulatedRewardsPerShare
      info1 == [info0 EXCEPT !.stakedAmount = newStaked, !.rewardDebt = newDebt]
      s1 == IF newStaked = 0
            THEN [s EXCEPT !.stakers[sender] = NoBox]
            ELSE storeUserStakeInfo(s, sender, info1)
  IN
  IF ~(info0.stakedAmount > 0) THEN Err(s)
  ELSE IF ~(amount <= info0.stakedAmount) THEN Err(s)
  ELSE IF ~(amount > 0) THEN Err(s)
  ELSE IF amount < info0.stakedAmount /\ ~(newStaked >= s.minimumStake) THEN Err(s)
  ELSE IF ~Fits(newDebt) THEN Err(s)
  ELSE IF ~Fits(s1.totalStaked - amount) THEN Err(s1)
  ELSE Ok([s1 EXCEPT !.totalStaked = s1.totalStaked - amount],
          <<[assetReceiver |-> sender, assetAmount |-> amount, xferAsset |-> s.asset]>>)

\* withdraw without the check that the amount is positive
withdraw_allowsZero(s, sender, amount) ==
  LET info0 == getUserStakeInfo(s, sender)
      newStaked == info0.stakedAmount - amount
      newDebt == newStaked * s.accumulatedRewardsPerShare
      info1 == [info0 EXCEPT !.stakedAmount = newStaked, !.rewardDebt = newDebt]
      s1 == storeUserStakeInfo(s, sender, info1)
  IN
  IF ~(info0.stakedAmount > 0) THEN Err(s)
  ELSE IF ~(amount <= info0.stakedAmount) THEN Err(s)
  ELSE IF amount < info0.stakedAmount /\ ~(newStaked >= s.minimumStake) THEN Err(s)
  ELSE IF ~Fits(newDebt) THEN Err(s)
  ELSE IF ~Fits(s1.totalStaked - amount) THEN Err(s1)
  ELSE Ok([s1 EXCEPT !.totalStaked = s1.totalStaked - amount],
          <<[assetReceiver |-> sender, assetAmount |-> amount, xferAsset |-> s.asset]>>)

withdraw(s, sender, amount) ==
  LET info0 == getUserStakeInfo(s, sender)
      newStaked == info0.stakedAmount - amount
      newDebt == newStaked * s.accumulatedRewardsPerShare
      info1 == [info0 EXCEPT !.stakedAmount = newStaked, !.rewardDebt = newDebt]
      s1 == storeUserStakeInfo(s, sender, info1)
  IN
  IF ~(info0.stakedAmount > 0) THEN Err(s)
  ELSE IF ~(amount <= info0.stakedAmount) THEN Err(s)
  ELSE IF ~(amount > 0) THEN Err(s)
  ELSE IF amount < info0.stakedAmount /\ ~(newStaked >= s.minimumStake) THEN Err(s)
  ELSE IF ~Fits(newDebt) THEN Err(s)
  ELSE IF ~Fits(s1.totalStaked - amount) THEN Err(s1)
  ELSE Ok([s1 EXCEPT !.totalStaked = s1.totalStaked - amount],
          <<[assetReceiver |-> sender, assetAmount |-> amount, xferAsset |-> s.asset]>>)

\* addRewards that overwrites the pool with the amount instead of adding it
addRewards_overwrites(s, sender, g) ==
  IF sender # s.adminAddress THEN Err(s)
  ELSE IF ~companionOk(s, g) THEN Err(s)
  ELSE Ok([s EXCEPT !.rewardPool = g.assetAmount], <<>>)

addRewards(s, sender, g) ==
  IF sender # s.adminAddress THEN Err(s)
  ELSE IF ~companionOk(s, g) THEN Err(s)
  ELSE IF ~Fits(s.rewardPool + g.assetAmount) THEN Err(s)
  ELSE Ok([s EXCEPT !.rewardPool = s.rewardPool + g.assetAmount], <<>>)

\* getCurrentAPY: returns [ok, v]; max is the largest uint64
getCurrentAPY(s, max) ==
  LET annualRewards == 52 * s.weeklyRewards
  IN
  IF s.totalStaked = 0 THEN [ok |-> TRUE, v |-> 0]
  ELSE IF annualRewards > max THEN [ok |-> FALSE, v |-> 0]
  ELSE IF annualRewards * 100 > max THEN [ok |-> FALSE, v |-> 0]
  ELSE [ok |-> TRUE, v |-> (annualRewards * 100) \div s.totalStaked]

\* getPendingRewards: returns [ok, v]
getPendingRewards(s, userAddress) == calculatePendingRewards(s, userAddress)

\* triggerRewardDistribution that also checkpoints every stored record at the
\* new accumulator
triggerRewardDistribution_checkpointsAll(s, sender, now) ==
  IF sender # s.adminAddress THEN Err(s)
  ELSE LET u == updateRewards(s, now)
           settled == [a \in Accounts |->
                         IF u.s.stakers[a].exists
                         THEN [u.s.stakers[a] EXCEPT
                                 !.rewardDebt = u.s.stakers[a].stakedAmount *
                                                u.s.accumulatedRewardsPerShare]
                         ELSE u.s.stakers[a]]
       IN IF u.ok THEN Ok([u.s EXCEPT !.stakers = settled], <<>>) ELSE Err(u.s)

triggerRewardDistribution(s, sender, now) ==
  IF sender # s.adminAddress THEN Err(s)
  ELSE LET u == updateRewards(s, now)
       IN IF u.ok THEN Ok(u.s, <<>>) ELSE Err(u.s)

\* getUserStats: returns [ok, v]
getUserStats(s, userAddress) ==
  LET stakeInfo == getUserStakeInfo(s, userAddress)
      pendingRewards == calculatePendingRewards(s, userAddress)
  IN
  IF ~pendingRewards.ok THEN [ok |-> FALSE, v |-> <<>>]
  ELSE [ok |-> TRUE,
        v |-> <<stakeInfo.stakedAmount, stakeInfo.firstStakeTime,
                stakeInfo.lastStakeTime, stakeInfo.totalRewardsEarned,
                pendingRewards.v, stakeInfo.rewardDebt>>]

\* getContractStats that computes the APY field itself, in units of 1/10000
getContractStats_ownAPY(s, max) ==
  LET currentAPY == IF s.totalStaked = 0 THEN 0
                    ELSE (52 * s.weeklyRewards * 10000) \div s.totalStaked
  IN
  IF ~getCurrentAPY(s, max).ok THEN [ok |-> FALSE, v |-> <<>>]
  ELSE [ok |-> TRUE,
        v |-> <<s.asset, s.totalStaked, currentAPY, s.lastRewardTime,
                s.rewardPeriod, s.minimumStake, s.rewardPool,
                s.accumulatedRewardsPerShare>>]

\* getContractStats: returns [ok, v]; max is the largest uint64
getContractStats(s, max) ==
  LET currentAPY == getCurrentAPY(s, max)
  IN
  IF ~currentAPY.ok THEN [ok |-> FALSE, v |-> <<>>]
  ELSE [ok |-> TRUE,
        v |-> <<s.asset, s.totalStaked, currentAPY.v, s.lastRewardTime,
                s.rewardPeriod, s.minimumStake, s.rewardPool,
                s.accumulatedRewardsPerShare>>]

updateAdmin(s, sender, newAdminAddress) ==
  IF sender # s.adminAddress THEN Err(s)
  ELSE Ok([s EXCEPT !.adminAddress = newAdminAddress], <<>>)

\* emergencyWithdrawRewards that checks the amount against everything the
\* contract holds and takes what the pool lacks out of totalStaked
emergencyWithdrawRewards_fromBalance(s, sender, amount) ==
  IF sender # s.adminAddress THEN Err(s)
  ELSE IF ~(s.rewardPool + s.totalStaked >= amount) THEN Err(s)
  ELSE Ok(IF s.rewardPool >= amount
          THEN [s EXCEPT !.rewardPool = s.rewardPool - amount]
          ELSE [s EXCEPT !.rewardPool = 0,
                         !.totalStaked = s.totalStaked - (amount - s.rewardPool)],
          <<[assetReceiver |-> s.adminAddress, assetAmount |-> amount,
             xferAsset |-> s.asset]>>)

\* emergencyWithdrawRewards that sends the transfer and leaves rewardPool as it was
emergencyWithdrawRewards_keepsPool(s, sender, amount) ==
  IF sender # s.adminAddress THEN Err(s)
  ELSE IF ~(s.rewardPool >= amount) THEN Err(s)
  ELSE Ok(s, <<[assetReceiver |-> s.adminAddress, assetAmount |-> amount,
                xferAsset |-> s.asset]>>)

\* emergencyWithdrawRewards without the check that the caller is the admin
emergencyWithdrawRewards_anyCaller(s, sender, amount) ==
  IF ~(s.rewardPool >= amount) THEN Err(s)
  ELSE Ok([s EXCEPT !.rewardPool = s.rewardPool - amount],
          <<[assetReceiver |-> s.adminAddress, assetAmount |-> amount,
             xferAsset |-> s.asset]>>)

emergencyWithdrawRewards(s, sender, amount) ==
  IF sender # s.adminAddress THEN Err(s)
  ELSE IF ~(s.rewardPool >= amount) THEN Err(s)
  ELSE Ok([s EXCEPT !.rewardPool = s.rewardPool - amount],
          <<[assetReceiver |-> s.adminAddress, assetAmount |-> amount,
             xferAsset |-> s.asset]>>)

\* deleteUserBox without the check that the record holds no stake
deleteUserBox_noStakeCheck(s, sender, userAddress) ==
  IF ~(sender = userAddress \/ sender = s.adminAddress) THEN Err(s)
  ELSE IF s.stakers[userAddress].exists
       THEN Ok([s EXCEPT !.stakers[userAddress] = NoBox], <<>>)
       ELSE Ok(s, <<>>)

deleteUserBox(s, sender, userAddress) ==
  IF ~(sender = userAddress \/ sender = s.adminAddress) THEN Err(s)
  ELSE IF getUserStakeInfo(s, userAddress).stakedAmount # 0 THEN Err(s)
  ELSE IF s.stakers[userAddress].exists
       THEN Ok([s EXCEPT !.stakers[userAddress] = NoBox], <<>>)
       ELSE Ok(s, <<>>)

\* updateWeeklyRewards that writes the new amount before it advances the
\* accumulator
updateWeeklyRewards_setsFirst(s, sender, now, newWeeklyRewards) ==
  IF sender # s.adminAddress THEN Err(s)
  ELSE LET u == updateRewards([s EXCEPT !.weeklyRewards = newWeeklyRewards], now)
       IN IF u.ok THEN Ok(u.s, <<>>) ELSE Err(u.s)

updateWeeklyRewards(s, sender, now, newWeeklyRewards) ==
  IF sender # s.adminAddress THEN Err(s)
  ELSE LET u == updateRewards(s, now)
       IN IF u.ok THEN Ok([u.s EXCEPT !.weeklyRewards = newWeeklyRewards], <<>>)
          ELSE Err(u.s)

\* updateRewardPeriod that refuses a period of 0
updateRewardPeriod_rejectsZero(s, sender, now, newRewardPeriod) ==
  IF sender # s.adminAddress THEN Err(s)
  ELSE IF ~(newRewardPeriod > 0) THEN Err(s)
  ELSE LET u == updateRewards(s, now)
       IN IF u.ok THEN Ok([u.s EXCEPT !.rewardPeriod = newRewardPeriod], <<>>)
          ELSE Err(u.s)

updateRewardPeriod(s, sender, now, newRewardPeriod) ==
  IF sender # s.adminAddress THEN Err(s)
  ELSE LET u == updateRewards(s, now)
       IN IF u.ok THEN Ok([u.s EXCEPT !.rewardPeriod = newRewardPeriod], <<>>)
          ELSE Err(u.s)

\* ------------------------------------------------------ reference values
\* pending reward of an account as a mathematical integer (no width, no clamp)
Pending(s, a) ==
  IF s.stakers[a].exists
  THEN s.stakers[a].stakedAmount * s.accumulatedRewardsPerShare - s.stakers[a].rewardDebt
  ELSE 0

\* an accumulator advance is due: a whole period has elapsed with stake present
Due(s, now) == now >= s.lastRewardTime + s.rewardPeriod /\ s.totalStaked > 0

\* amount an accumulator advance at time now takes out of the pool
Emission(s, now) ==
  IF Due(s, now) /\ s.rewardPeriod > 0
  THEN s.weeklyRewards * ((now - s.lastRewardTime) \div s.rewardPeriod)
  ELSE 0

RECURSIVE SumStaked(_, _)
SumStaked(f, S) ==
  IF S = {} THEN 0
  ELSE LET a == CHOOSE x \in S : TRUE
       IN (IF f[a].exists THEN f[a].stakedAmount ELSE 0) + SumStaked(f, S \ {a})

\* ------------------------------------------------------------ inputs
InitAssets == {NoAsset, 1}
MinStakes == {2}
InitWeeklies == {4}
InitPeriods == {1}
Weeklies == {2}
Periods == {0, 1}
StakeAmounts == 0..MaxAmount
RewardAmounts == {0, 4}

Group(size, type, receiver, amount, xfer) ==
  [groupSize |-> size, type |-> type, assetReceiver |-> receiver,
   assetAmount |-> amount, xferAsset |-> xfer]

\* one group for each way the companion transfer can be wrong
BadGroups ==
  {Group(1, "appl", currentApplicationAddress, 1, 1),
   Group(2, "pay", currentApplicationAddress, 1, 1),
   Group(2, "axfer", "alice", 1, 1),
   Group(2, "axfer", currentApplicationAddress, 1, 2)}

StakeGroups ==
  {Group(2, "axfer", currentApplicationAddress, n, 1) : n \in StakeAmounts} \cup BadGroups

RewardGroups ==
  {Group(2, "axfer", currentApplicationAddress, n, 1) : n \in RewardAmounts} \cup BadGroups

\* ------------------------------------------------- every call in a state
\* argument values of a call: every uint64, every asset id in use, every
\* group the stake and addRewards actions draw from
Amounts == 0..UintMax
AssetArgs == {NoAsset, 1, 2}
AnyGroups == StakeGroups \cup RewardGroups

\* the groups whose transfer the asset's supply allows: the supply is a
\* uint64, so the amount staked so far plus the amount transferred fits
SupplyGroups(s) == {g \in AnyGroups : Fits(s.totalStaked + g.assetAmount)}

\* the result of every state-changing public method called by sender at time
\* now in state s, one record [ok, s, itxn] per method and argument list
CallsBy(s, sender, now) ==
  {initialize(s, sender, now, a, adm, m, w, p) :
     a \in AssetArgs, adm \in Accounts, m \in MinStakes,
     w \in InitWeeklies, p \in Periods}
  \cup {optInToAsset(s, sender)}
  \cup {stake(s, sender, now, g) : g \in SupplyGroups(s)}
  \cup {withdraw(s, sender, amount) : amount \in Amounts}
  \cup {addRewards(s, sender, g) : g \in AnyGroups}
  \cup {triggerRewardDistribution(s, sender, now)}
  \cup {updateAdmin(s, sender, newAdminAddress) : newAdminAddress \in Accounts}
  \cup {emergencyWithdrawRewards(s, sender, amount) : amount \in Amounts}
  \cup {deleteUserBox(s, sender, userAddress) : userAddress \in Accounts}
  \cup {updateWeeklyRewards(s, sender, now, w) : w \in Amounts}
  \cup {updateRewardPeriod(s, sender, now, p) : p \in Amounts}

\* the same without initialize
CallsAfterInitBy(s, sender, now) ==
  {optInToAsset(s, sender)}
  \cup {stake(s, sender, now, g) : g \in SupplyGroups(s)}
  \cup {withdraw(s, sender, amount) : amount \in Amounts}
  \cup {addRewards(s, sender, g) : g \in AnyGroups}
  \cup {triggerRewardDistribution(s, sender, now)}
  \cup {updateAdmin(s, sender, newAdminAddress) : newAdminAddress \in Accounts}
  \cup {emergencyWithdrawRewards(s, sender, amount) : amount \in Amounts}
  \cup {deleteUserBox(s, sender, userAddress) : userAddress \in Accounts}
  \cup {updateWeeklyRewards(s, sender, now, w) : w \in Amounts}
  \cup {updateRewardPeriod(s, sender, now, p) : p \in Amounts}


\* ------------------------------------------------------------ actions
Init ==
  /\ asset = NoAsset
  /\ adminAddress = ZeroAddress
  /\ totalStaked = 0
  /\ lastRewardTime = 0
  /\ minimumStake = 0
  /\ rewardPool = 0
  /\ accumulatedRewardsPerShare = 0
  /\ weeklyRewards = 0
  /\ rewardPeriod = 0
  /\ stakers = [a \in Accounts |-> NoBox]
  /\ latestTimestamp = 0
  /\ optedIn = FALSE
  /\ initialized = FALSE
  /\ poolLedger = 0
  /\ returned = <<>>
  /\ held = 0
  /\ emitted = 0
  /\ audit = FALSE

\* the amount the inner transactions tx move out of the application account
\* (a transfer to the application itself moves nothing)
RECURSIVE Sent(_)
Sent(tx) ==
  IF tx = <<>> THEN 0
  ELSE (IF Head(tx).assetReceiver = currentApplicationAddress
        THEN 0 ELSE Head(tx).assetAmount) + Sent(Tail(tx))

\* an application call with result r: committed when r.ok; a rejected call
\* leaves every variable as it was and is no step at all
Call(r, pool, opted, inited, received, emission) ==
  /\ r.ok
  /\ asset' = r.s.asset
  /\ adminAddress' = r.s.adminAddress
  /\ totalStaked' = r.s.totalStaked
  /\ lastRewardTime' = r.s.lastRewardTime
  /\ minimumStake' = r.s.minimumStake
  /\ rewardPool' = r.s.rewardPool
  /\ accumulatedRewardsPerShare' = r.s.accumulatedRewardsPerShare
  /\ weeklyRewards' = r.s.weeklyRewards
  /\ rewardPeriod' = r.s.rewardPeriod
  /\ stakers' = r.s.stakers
  /\ poolLedger' = pool
  /\ optedIn' = (IF audit THEN optedIn ELSE opted)
  /\ initialized' = (IF audit THEN initialized ELSE inited)
  /\ held' = (IF audit THEN held + received - Sent(r.itxn) ELSE held)
  /\ emitted' = (IF audit THEN emitted + emission ELSE emitted)
  /\ UNCHANGED <<latestTimestamp, returned, audit>>

Tick ==
  /\ latestTimestamp < MaxTime
  /\ latestTimestamp' = latestTimestamp + 1
  /\ UNCHANGED <<ledgerVars, optedIn, initialized, poolLedger, returned,
                 held, emitted, audit>>

Initialize ==
  \E sender \in Accounts, a \in InitAssets, adm \in Accounts,
     m \in MinStakes, w \in InitWeeklies, p \in InitPeriods :
    Call(initialize(Cur, sender, latestTimestamp, a, adm, m, w, p),
         0, optedIn, TRUE, 0, 0)

OptInToAsset ==
  \E sender \in Accounts :
    Call(optInToAsset(Cur, sender), poolLedger, TRUE, initialized, 0, 0)

Stake ==
  \E sender \in Accounts, g \in StakeGroups :
    Call(stake(Cur, sender, latestTimestamp, g), poolLedger, optedIn, initialized,
         g.assetAmount, 0)

Withdraw ==
  \E sender \in Accounts :
  \E amount \in StakeAmounts \cup {getUserStakeInfo(Cur, sender).stakedAmount, UintMax} :
    Call(withdraw(Cur, sender, amount), poolLedger, optedIn, initialized, 0, 0)

AddRewards ==
  \E sender \in Accounts, g \in RewardGroups :
    Call(addRewards(Cur, sender, g),
         poolLedger + g.assetAmount, optedIn, initialized, g.assetAmount, 0)

TriggerRewardDistribution ==
  \E sender \in Accounts :
    Call(triggerRewardDistribution(Cur, sender, latestTimestamp),
         poolLedger - Emission(Cur, latestTimestamp), optedIn, initialized,
         0, Emission(Cur, latestTimestamp))

UpdateAdmin ==
  \E sender \in Accounts, newAdminAddress \in Accounts :
    Call(updateAdmin(Cur, sender, newAdminAddress),
         poolLedger, optedIn, initialized, 0, 0)

EmergencyWithdrawRewards ==
  \E sender \in Accounts, amount \in {2, rewardPool, UintMax} :
    Call(emergencyWithdrawRewards(Cur, sender, amount),
         poolLedger - amount, optedIn, initialized, 0, 0)

DeleteUserBox ==
  \E sender \in Accounts, userAddress \in Accounts :
    Call(deleteUserBox(Cur, sender, userAddress),
         poolLedger, optedIn, initialized, 0, 0)

UpdateWeeklyRewards ==
  \E sender \in Accounts, w \in Weeklies :
    Call(updateWeeklyRewards(Cur, sender, latestTimestamp, w),
         poolLedger - Emission(Cur, latestTimestamp), optedIn, initialized,
         0, Emission(Cur, latestTimestamp))

UpdateRewardPeriod ==
  \E sender \in Accounts, p \in Periods :
    Call(updateRewardPeriod(Cur, sender, latestTimestamp, p),
         poolLedger - Emission(Cur, latestTimestamp), optedIn, initialized,
         0, Emission(Cur, latestTimestamp))

Next ==
  \/ Tick
  \/ Initialize
  \/ OptInToAsset
  \/ Stake
  \/ Withdraw
  \/ AddRewards
  \/ TriggerRewardDistribution
  \/ UpdateAdmin
  \/ EmergencyWithdrawRewards
  \/ DeleteUserBox
  \/ UpdateWeeklyRewards
  \/ UpdateRewardPeriod

Spec == Init /\ [][Next]_vars

\* --------------------------------------------------- the asset's history
\* the state after construction, with the history of the asset kept
InitLedger ==
  /\ asset = NoAsset
  /\ adminAddress = ZeroAddress
  /\ totalStaked = 0
  /\ lastRewardTime = 0
  /\ minimumStake = 0
  /\ rewardPool = 0
  /\ accumulatedRewardsPerShare = 0
  /\ weeklyRewards = 0
  /\ rewardPeriod = 0
  /\ stakers = [a \in Accounts |-> NoBox]
  /\ latestTimestamp = 0
  /\ optedIn = FALSE
  /\ initialized = FALSE
  /\ poolLedger = 0
  /\ returned = <<>>
  /\ held = 0
  /\ emitted = 0
  /\ audit = TRUE

SpecLedger == InitLedger /\ [][Next]_vars

\* ------------------------------------------------ the public record helper
\* the record a storeUserStakeInfo call writes: a stake below MinStakes, a
\* non-zero totalRewardsEarned and a non-zero rewardDebt
StoredInfos == {UserStakeInfo(1, 0, 0, 1, 1)}

\* storeUserStakeInfo called from outside: any sender, any account's record
StoreUserStakeInfo ==
  \E sender \in Accounts, userAddress \in Accounts, stakeInfo \in StoredInfos :
    Call(Ok(storeUserStakeInfo(Cur, userAddress, stakeInfo), <<>>),
         poolLedger, optedIn, initialized, 0, 0)

\* the calls of Next with the reward parameters left as initialize set them,
\* and the storeUserStakeInfo call
NextPublic ==
  \/ StoreUserStakeInfo
  \/ Tick
  \/ Initialize
  \/ OptInToAsset
  \/ Stake
  \/ Withdraw
  \/ AddRewards
  \/ TriggerRewardDistribution
  \/ UpdateAdmin
  \/ EmergencyWithdrawRewards
  \/ DeleteUserBox

SpecPublic == InitLedger /\ [][NextPublic]_vars

\* ------------------------------------------------- the read-only queries
\* the states the queries are applied to: the creator has initialized the
\* contract with some weeklyRewards, the admin has funded nothing yet, and one
\* account holds all the stake there is
InitAPY ==
  /\ asset = 1
  /\ adminAddress = creatorAddress
  /\ totalStaked \in 0..MaxApyStaked
  /\ lastRewardTime = 0
  /\ minimumStake = 1
  /\ rewardPool = 0
  /\ accumulatedRewardsPerShare = 0
  /\ weeklyRewards \in 0..MaxApyWeekly
  /\ rewardPeriod = 1
  /\ stakers = [a \in Accounts |->
                  IF a \in Users /\ totalStaked > 0
                  THEN UserStakeInfo(totalStaked, 0, 0, 0, 0)
                  ELSE NoBox]
  /\ latestTimestamp = 0
  /\ optedIn = TRUE
  /\ initialized = TRUE
  /\ poolLedger = 0
  /\ returned = <<>>
  /\ held = 0
  /\ emitted = 0
  /\ audit = FALSE

\* a read-only call with result r: it hands back r.v and writes nothing
Query(r) ==
  /\ r.ok
  /\ returned' = r.v
  /\ UNCHANGED <<ledgerVars, latestTimestamp, optedIn, initialized, poolLedger,
                 held, emitted, audit>>

GetCurrentAPY == Query([ok |-> getCurrentAPY(Cur, ApyUintMax).ok,
                        v |-> <<getCurrentAPY(Cur, ApyUintMax).v>>])

GetContractStats == Query(getContractStats(Cur, ApyUintMax))

NextAPY ==
  \/ GetCurrentAPY
  \/ GetContractStats

SpecAPY == InitAPY /\ [][NextAPY]_vars

\* =============================================================== claims
Now == latestTimestamp
Rec(a) == stakers[a]
Staking(a) == stakers[a].exists /\ stakers[a].stakedAmount > 0

\* whole periods elapsed at time now since s.lastRewardTime (period > 0)
PeriodsElapsed(s, now) == (now - s.lastRewardTime) \div s.rewardPeriod

\* s1 is s after an accumulator advance at time now that reflects every whole
\* elapsed period
AdvancedFrom(s, s1, now) ==
  /\ s1.lastRewardTime = s.lastRewardTime + PeriodsElapsed(s, now) * s.rewardPeriod
  /\ s1.accumulatedRewardsPerShare =
       s.accumulatedRewardsPerShare + (Emission(s, now) \div s.totalStaked)
  /\ s1.rewardPool = s.rewardPool - Emission(s, now)

\* C1: after any sequence of operations totalStaked equals the sum of
\* stakedAmount over all stored account records.
C1_TotalStakedIsSum == totalStaked = SumStaked(stakers, Accounts)

\* a full withdrawal has left an empty record next to an account with stake
C1_Witness ==
  \E a, b \in Accounts :
    /\ a # b
    /\ stakers[a].exists /\ stakers[a].stakedAmount = 0
    /\ Staking(b)

C3_StakeWithdrawAdvance ==
  (Due(Cur, Now) /\ rewardPeriod > 0) =>
    \A sender \in Accounts :
      /\ \A g \in StakeGroups :
           LET r == stake(Cur, sender, Now, g)
           IN r.ok =>
                /\ AdvancedFrom(Cur, r.s, Now)
                /\ r.s.stakers[sender].rewardDebt =
                     r.s.stakers[sender].stakedAmount * r.s.accumulatedRewardsPerShare
      /\ \A amount \in 0..UintMax :
           LET r == withdraw(Cur, sender, amount)
           IN r.ok =>
                /\ AdvancedFrom(Cur, r.s, Now)
                /\ r.s.stakers[sender].rewardDebt =
                     r.s.stakers[sender].stakedAmount * r.s.accumulatedRewardsPerShare

\* C4: rewardPool is never negative and never a wrapped-around value: it is
\* the balance obtained in unbounded integers from what was added, withdrawn
\* and emitted.
C4_PoolNeverNegative == rewardPool >= 0 /\ rewardPool = poolLedger

\* after an earlier advance, one more is due and the pool is short of it
C4_Witness ==
  /\ accumulatedRewardsPerShare > 0
  /\ Due(Cur, Now) /\ rewardPeriod > 0
  /\ rewardPool < Emission(Cur, Now)

\* C5: when a period has elapsed, totalStaked > 0 and rewardPool is less than
\* weeklyRewards * periodsElapsed, each operation that runs the advance
\* (triggerRewardDistribution, updateWeeklyRewards, updateRewardPeriod), called
\* by the admin, fails; a failed call is rejected, so the accumulator,
\* lastRewardTime and rewardPool keep their values.
C5_AdvanceFailsOnShortPool ==
  (Due(Cur, Now) /\ rewardPeriod > 0 /\ rewardPool < Emission(Cur, Now)) =>
    /\ ~triggerRewardDistribution(Cur, adminAddress, Now).ok
    /\ \A w \in 0..UintMax : ~updateWeeklyRewards(Cur, adminAddress, Now, w).ok
    /\ \A p \in 0..UintMax : ~updateRewardPeriod(Cur, adminAddress, Now, p).ok

\* a funded pool that is nevertheless short of the emission now due
C5_Witness ==
  /\ adminAddress \in Accounts
  /\ Due(Cur, Now) /\ rewardPeriod > 0
  /\ rewardPool > 0
  /\ rewardPool < Emission(Cur, Now)

\* C6: for every account record rewardDebt <= stakedAmount *
\* accumulatedRewardsPerShare: the pending reward is never negative.
C6_DebtWithinEarned ==
  \A a \in Accounts :
    stakers[a].exists =>
      stakers[a].rewardDebt <= stakers[a].stakedAmount * accumulatedRewardsPerShare

\* C7: each account's stakedAmount is 0 or at least minimumStake.
C7_MinimumStake ==
  \A a \in Accounts :
    stakers[a].exists =>
      (stakers[a].stakedAmount = 0 \/ stakers[a].stakedAmount >= minimumStake)

\* C8: accumulatedRewardsPerShare and lastRewardTime never decrease in any
\* step, updateWeeklyRewards and updateRewardPeriod calls included.
C8_Monotone ==
  [][ /\ accumulatedRewardsPerShare' >= accumulatedRewardsPerShare
      /\ lastRewardTime' >= lastRewardTime ]_vars

\* the accumulator has advanced and both parameters have been updated
C8_Witness ==
  /\ accumulatedRewardsPerShare > 0
  /\ lastRewardTime > 0
  /\ weeklyRewards \notin InitWeeklies
  /\ rewardPeriod \notin InitPeriods

\* C9: a second triggerRewardDistribution by the admin right after a
\* successful one, with no clock advance, succeeds and leaves the state as
\* the first one left it.
C9_TriggerIdempotent ==
  LET r1 == triggerRewardDistribution(Cur, adminAddress, Now)
  IN r1.ok =>
       LET r2 == triggerRewardDistribution(r1.s, r1.s.adminAddress, Now)
       IN r2.ok /\ r2.s = r1.s

\* an advance has run at the current time and the pool could pay one more
C9_Witness ==
  /\ accumulatedRewardsPerShare > 0
  /\ lastRewardTime = Now
  /\ totalStaked > 0
  /\ weeklyRewards > 0
  /\ rewardPool >= weeklyRewards

\* C10: the caller's pending reward right after a successful stake is not
\* greater than the caller's pending reward right before it.
C10_StakeNoPendingIncrease ==
  LET c == Cur
  IN
    \A sender \in Accounts, g \in StakeGroups :
      LET r == stake(c, sender, Now, g)
      IN r.ok => Pending(r.s, sender) <= Pending(c, sender)

\* an account with reward pending can top up
C10_Witness ==
  \E a \in Accounts, g \in StakeGroups :
    /\ Staking(a)
    /\ Pending(Cur, a) > 0
    /\ stake(Cur, a, Now, g).ok

\* C11: every failure of a public operation is detected before the operation
\* has written anything: whenever a call fails, the contract state at the
\* point of failure is still the state the call started in (no write has to
\* be undone by the rejection).
C11_FailBeforeWrite ==
  \A sender \in Accounts :
    \A r \in CallsBy(Cur, sender, Now) :
      ~r.ok => r.s = Cur

\* C12: the contract offers a claim operation: an account with stake whose
\* pending reward (stakedAmount * accumulatedRewardsPerShare - rewardDebt) is
\* positive and covered by rewardPool can make a call that succeeds, adds the
\* pending reward to its totalRewardsEarned, resets its rewardDebt to
\* stakedAmount * accumulatedRewardsPerShare, takes the pending reward out of
\* rewardPool and transfers it to the caller.
C12_ClaimOffered ==
  \A a \in Accounts :
    LET pending == Pending(Cur, a)
    IN (Staking(a) /\ pending > 0 /\ rewardPool >= pending) =>
         \E r \in CallsBy(Cur, a, Now) :
           /\ r.ok
           /\ r.s.stakers[a].exists
           /\ r.s.stakers[a].totalRewardsEarned = Rec(a).totalRewardsEarned + pending
           /\ r.s.stakers[a].rewardDebt =
                Rec(a).stakedAmount * accumulatedRewardsPerShare
           /\ r.s.rewardPool = rewardPool - pending
           /\ \E i \in 1..Len(r.itxn) :
                /\ r.itxn[i].assetReceiver = a
                /\ r.itxn[i].assetAmount = pending

\* C13: while no initialize call has succeeded, every call of optInToAsset,
\* stake, withdraw, addRewards, triggerRewardDistribution,
\* emergencyWithdrawRewards, updateAdmin, updateWeeklyRewards,
\* updateRewardPeriod and deleteUserBox fails, whoever calls it and whatever
\* its arguments.
C13_OnlyInitializeBeforeInit ==
  ~initialized =>
    \A sender \in Accounts :
      \A r \in CallsAfterInitBy(Cur, sender, Now) : ~r.ok

\* C14: a stake call succeeds only after a successful initialize and a
\* successful optInToAsset.
C14_StakeAfterOptIn ==
  \A sender \in Accounts, g \in AnyGroups :
    stake(Cur, sender, Now, g).ok => (initialized /\ optedIn)

\* C15: once an optInToAsset call has succeeded, every later optInToAsset call
\* fails, whoever the caller is.
C15_OptInOnce ==
  optedIn => \A sender \in Accounts : ~optInToAsset(Cur, sender).ok

\* C16: once an initialize call has succeeded, whatever its arguments, every
\* later initialize call fails (and so leaves asset, admin, totalStaked,
\* rewardPool, the accumulator, lastRewardTime and the parameters unchanged).
C16_InitializeOnce ==
  initialized =>
    \A sender \in Accounts, a \in AssetArgs, adm \in Accounts,
       m \in Amounts, w \in Amounts, p \in Amounts :
      ~initialize(Cur, sender, Now, a, adm, m, w, p).ok

\* <<minimumStake, weeklyRewards, rewardPeriod>> argument lists tried for
\* initialize: all zero, the ones the Initialize action uses, and three
\* different values with the largest uint64 among them
ParamArgs == {<<0, 0, 0>>, <<2, 4, 1>>, <<UintMax, 1, 2>>}

\* C17: initialize fails unless the caller is the creator; when it succeeds,
\* asset, adminAddress, minimumStake, weeklyRewards and rewardPeriod are the
\* arguments, totalStaked, rewardPool and accumulatedRewardsPerShare are 0,
\* lastRewardTime is the current time and no account record exists.
C17_InitializeEffects ==
  LET c == Cur
  IN
    \A sender \in Accounts, a \in AssetArgs, adm \in Accounts, args \in ParamArgs :
      LET r == initialize(c, sender, Now, a, adm, args[1], args[2], args[3])
      IN /\ sender # creatorAddress => ~r.ok
         /\ r.ok =>
              /\ r.s.asset = a
              /\ r.s.adminAddress = adm
              /\ r.s.minimumStake = args[1]
              /\ r.s.weeklyRewards = args[2]
              /\ r.s.rewardPeriod = args[3]
              /\ r.s.totalStaked = 0
              /\ r.s.rewardPool = 0
              /\ r.s.accumulatedRewardsPerShare = 0
              /\ r.s.lastRewardTime = Now
              /\ \A x \in Accounts : ~r.s.stakers[x].exists

\* C18: addRewards, triggerRewardDistribution, emergencyWithdrawRewards,
\* updateAdmin, updateWeeklyRewards and updateRewardPeriod fail, before any
\* write, for every caller other than the current admin; optInToAsset fails
\* for every caller that is neither the creator nor the current admin.
C18_Unauthorized ==
  [](
    LET c == Cur
    IN
      \A sender \in Accounts :
        /\ sender # adminAddress =>
             /\ \A g \in AnyGroups :
                  LET r == addRewards(c, sender, g) IN ~r.ok /\ r.s = c
             /\ LET r == triggerRewardDistribution(c, sender, Now)
                IN ~r.ok /\ r.s = c
             /\ \A amount \in Amounts :
                  LET r == emergencyWithdrawRewards(c, sender, amount)
                  IN ~r.ok /\ r.s = c
             /\ \A newAdminAddress \in Accounts :
                  LET r == updateAdmin(c, sender, newAdminAddress)
                  IN ~r.ok /\ r.s = c
             /\ \A w \in Amounts :
                  LET r == updateWeeklyRewards(c, sender, Now, w)
                  IN ~r.ok /\ r.s = c
             /\ \A p \in Amounts :
                  LET r == updateRewardPeriod(c, sender, Now, p)
                  IN ~r.ok /\ r.s = c
        /\ (sender # creatorAddress /\ sender # adminAddress) =>
             LET r == optInToAsset(c, sender) IN ~r.ok /\ r.s = c
  )

\* an account that is neither creator nor admin calls while the admin's own
\* calls would succeed: the pool is funded, an advance is due and payable
C18_Witness ==
  \E a \in Accounts :
    /\ a # adminAddress /\ a # creatorAddress
    /\ rewardPool > 0
    /\ Due(Cur, Now) /\ rewardPeriod > 0
    /\ emergencyWithdrawRewards(Cur, adminAddress, rewardPool).ok
    /\ triggerRewardDistribution(Cur, adminAddress, Now).ok
    /\ optInToAsset(Cur, adminAddress).ok

\* C19: admin rights follow updateAdmin.  After a successful
\* updateAdmin(new) with new different from the old admin, every admin-only
\* operation called by the old admin fails and calls by new pass the admin
\* check; and once initialize has succeeded, a step that changes adminAddress
\* is a successful updateAdmin call by the admin.
C19_AdminFollowsUpdate ==
  [][ /\ \A new \in Accounts \ {adminAddress} :
           LET u == updateAdmin(Cur, adminAddress, new)
               old == adminAddress
           IN u.ok =>
                /\ u.s.adminAddress = new
                /\ \A g \in AnyGroups : ~addRewards(u.s, old, g).ok
                /\ ~triggerRewardDistribution(u.s, old, Now).ok
                /\ \A amount \in Amounts : ~emergencyWithdrawRewards(u.s, old, amount).ok
                /\ \A n \in Accounts : ~updateAdmin(u.s, old, n).ok
                /\ \A w \in Amounts : ~updateWeeklyRewards(u.s, old, Now, w).ok
                /\ \A p \in Amounts : ~updateRewardPeriod(u.s, old, Now, p).ok
                /\ emergencyWithdrawRewards(u.s, new, 0).ok
                /\ \A n \in Accounts : updateAdmin(u.s, new, n).ok
      /\ (initialized /\ adminAddress' # adminAddress) =>
           LET u == updateAdmin(Cur, adminAddress, adminAddress')
           IN u.ok /\ Cur' = u.s
    ]_vars

\* the groups that differ from a valid companion transfer
BadFor(s) ==
  {g \in AnyGroups :
     ~( /\ g.groupSize = 2
        /\ g.type = "axfer"
        /\ g.assetReceiver = currentApplicationAddress
        /\ g.xferAsset = s.asset
        /\ g.assetAmount > 0 )}

\* C20: stake and addRewards fail, before any write, unless the call is in a
\* group of exactly two transactions with a transfer of type asset transfer,
\* to the contract, of the configured asset, of a strictly positive amount.
C20_CompanionTransfer ==
  [](
    LET c == Cur
    IN
      \A sender \in Accounts, g \in BadFor(c) :
        /\ LET r == stake(c, sender, Now, g) IN ~r.ok /\ r.s = c
        /\ LET r == addRewards(c, sender, g) IN ~r.ok /\ r.s = c
  )

\* an account with stake and the admin call with a companion transfer that is
\* wrong in one respect, where the same call with a valid transfer succeeds
C20_Witness ==
  \E a \in Accounts, g \in AnyGroups \ BadFor(Cur) :
    /\ Staking(a)
    /\ stake(Cur, a, Now, g).ok
    /\ addRewards(Cur, adminAddress, g).ok
    /\ BadFor(Cur) # {}

\* the valid companion transfers of the configured asset, of every positive
\* amount that the asset's supply allows on top of what is staked
Transfers(s) ==
  {Group(2, "axfer", currentApplicationAddress, n, s.asset) :
     n \in {k \in 1..UintMax : Fits(s.totalStaked + k)}}

C22_WithdrawFailures ==
  LET c == Cur
  IN
    \A sender \in Accounts, amount \in Amounts :
      LET staked == getUserStakeInfo(c, sender).stakedAmount
          r == withdraw(c, sender, amount)
      IN ( \/ staked = 0
           \/ amount > staked
           \/ amount = 0
           \/ (0 < staked - amount /\ staked - amount < minimumStake) )
         => (~r.ok /\ r.s = c /\ r.itxn = <<>>)

\* one account holds more than the minimum, so that a partial withdrawal can
\* leave less than the minimum, and another account has no record
C22_Witness ==
  \E a, b \in Accounts :
    /\ Staking(a)
    /\ stakers[a].stakedAmount > minimumStake
    /\ minimumStake > 1
    /\ ~stakers[b].exists

C24_FirstStakeTimeFixed ==
  [][ \A a \in Accounts :
        (stakers[a].exists /\ stakers'[a].exists) =>
          stakers'[a].firstStakeTime = stakers[a].firstStakeTime ]_vars

C26_AddRewardsFrame ==
  [](
    LET c == Cur
    IN
      \A sender \in Accounts, g \in Transfers(c) :
        LET r == addRewards(c, sender, g)
        IN r.ok =>
             /\ r.s = [c EXCEPT !.rewardPool = rewardPool + g.assetAmount]
             /\ r.itxn = <<>>
             /\ \A g2 \in Transfers(c) :
                  LET r2 == addRewards(r.s, sender, g2)
                  IN r2.ok =>
                       r2.s = [c EXCEPT !.rewardPool =
                                          rewardPool + g.assetAmount + g2.assetAmount]
  )

\* with stake present and the accumulator advanced, the pool holds an
\* earlier addition and the admin can add twice more
C26_Witness ==
  /\ rewardPool > 0
  /\ totalStaked > 0
  /\ accumulatedRewardsPerShare > 0
  /\ \E g \in Transfers(Cur) :
       LET r == addRewards(Cur, adminAddress, g)
       IN r.ok /\ addRewards(r.s, adminAddress, g).ok

\* C27: emergencyWithdrawRewards(amount) by the admin fails without a write
\* when amount > rewardPool; otherwise it succeeds, decreases rewardPool by
\* exactly amount, submits one transfer of amount to the admin and changes
\* nothing else, so totalStaked and every account record stay as they were.
C27_EmergencyWithdraw ==
  LET c == Cur
  IN
    \A amount \in Amounts :
      LET r == emergencyWithdrawRewards(c, adminAddress, amount)
      IN /\ amount > rewardPool => (~r.ok /\ r.s = c /\ r.itxn = <<>>)
         /\ amount <= rewardPool =>
              /\ r.ok
              /\ r.s = [c EXCEPT !.rewardPool = rewardPool - amount]
              /\ r.itxn = <<[assetReceiver |-> adminAddress, assetAmount |-> amount,
                             xferAsset |-> asset]>>

\* part of the pool has been withdrawn while stake is present: the pool is
\* smaller than any amount added, and no emission has been taken from it
C27_Witness ==
  /\ adminAddress \in Accounts
  /\ totalStaked > 0
  /\ accumulatedRewardsPerShare = 0
  /\ rewardPool > 0
  /\ \A n \in RewardAmounts : n > 0 => rewardPool < n

C29_AdvanceBeforeParameter ==
  [](
    LET c == Cur
        u == updateRewards(c, Now)
    IN
      \A v \in Amounts :
        LET rw == updateWeeklyRewards(c, adminAddress, Now, v)
            rp == updateRewardPeriod(c, adminAddress, Now, v)
        IN
          /\ rw.ok = u.ok /\ rp.ok = u.ok
          /\ u.ok =>
               /\ Due(c, Now) => (AdvancedFrom(c, rw.s, Now) /\ AdvancedFrom(c, rp.s, Now))
               /\ rw.s = [u.s EXCEPT !.weeklyRewards = v]
               /\ rp.s = [u.s EXCEPT !.rewardPeriod = v]
               /\ \A t \in Now..MaxTime :
                    LET uw == updateRewards(rw.s, t)
                        up == updateRewards(rp.s, t)
                    IN /\ (uw.ok /\ Due(rw.s, t)) =>
                            /\ uw.s.lastRewardTime =
                                 rw.s.lastRewardTime
                                   + ((t - rw.s.lastRewardTime) \div rewardPeriod) * rewardPeriod
                            /\ uw.s.accumulatedRewardsPerShare =
                                 rw.s.accumulatedRewardsPerShare
                                   + (v * ((t - rw.s.lastRewardTime) \div rewardPeriod))
                                       \div totalStaked
                       /\ (up.ok /\ Due(rp.s, t)) =>
                            /\ up.s.lastRewardTime =
                                 rp.s.lastRewardTime
                                   + ((t - rp.s.lastRewardTime) \div v) * v
                            /\ up.s.accumulatedRewardsPerShare =
                                 rp.s.accumulatedRewardsPerShare
                                   + (weeklyRewards * ((t - rp.s.lastRewardTime) \div v))
                                       \div totalStaked
  )

\* the weekly amount has been changed by an earlier update, whole periods
\* have elapsed since, and the admin can change both parameters now
C29_Witness ==
  /\ adminAddress \in Accounts
  /\ weeklyRewards \notin InitWeeklies
  /\ Due(Cur, Now) /\ rewardPeriod > 0
  /\ Emission(Cur, Now) > 0
  /\ \E w \in Amounts :
       w # weeklyRewards /\ updateWeeklyRewards(Cur, adminAddress, Now, w).ok
  /\ \E p \in Amounts :
       p # rewardPeriod /\ updateRewardPeriod(Cur, adminAddress, Now, p).ok

\* C30: the accumulator advance at time now changes nothing when
\* now < lastRewardTime + rewardPeriod or totalStaked = 0; otherwise, with
\* p = (now - lastRewardTime) div rewardPeriod and e = weeklyRewards * p, it
\* succeeds exactly when rewardPeriod > 0, e and the new accumulator fit in
\* 64 bits and rewardPool >= e, and then adds e div totalStaked to
\* accumulatedRewardsPerShare, sets lastRewardTime to
\* lastRewardTime + p * rewardPeriod and decreases rewardPool by the full e,
\* truncated division or not; triggerRewardDistribution by the admin is that
\* advance.
C30_AdvanceMatchesReference ==
  [](
    LET c == Cur
    IN
      \A now \in Now..MaxTime :
        LET u == updateRewards(c, now)
            r == triggerRewardDistribution(c, adminAddress, now)
        IN
          /\ r.ok = u.ok /\ r.s = u.s /\ r.itxn = <<>>
          /\ ~Due(c, now) =>
               /\ u.s = c
               /\ u.ok <=> Fits(lastRewardTime + rewardPeriod)
          /\ (Due(c, now) /\ rewardPeriod = 0) => ~u.ok
          /\ (Due(c, now) /\ rewardPeriod > 0) =>
               LET p == (now - lastRewardTime) \div rewardPeriod
                   e == weeklyRewards * p
               IN /\ u.ok <=> /\ Fits(e)
                              /\ Fits(accumulatedRewardsPerShare + (e \div totalStaked))
                              /\ rewardPool >= e
                  /\ u.ok =>
                       u.s = [c EXCEPT
                                !.accumulatedRewardsPerShare =
                                   accumulatedRewardsPerShare + (e \div totalStaked),
                                !.lastRewardTime = lastRewardTime + p * rewardPeriod,
                                !.rewardPool = rewardPool - e]
  )

\* an advance is due whose emission the stake does not divide, and it succeeds
C30_Witness ==
  /\ Due(Cur, Now) /\ rewardPeriod > 0
  /\ Emission(Cur, Now) > 0
  /\ Emission(Cur, Now) % totalStaked # 0
  /\ updateRewards(Cur, Now).ok

\* C31: rewards are compounded at distribution and not at stake time: a
\* successful stake leaves the caller's totalRewardsEarned unchanged and adds
\* exactly the transferred amount to stakedAmount, and a successful
\* triggerRewardDistribution by the admin after a full reward period
\* increases every staker's stakedAmount and totalRewardsEarned by that
\* staker's pending reward and leaves every staker's pending reward at 0.
C31_CompoundAtDistribution ==
  LET c == Cur
  IN
    /\ \A sender \in Accounts, g \in Transfers(c) :
         LET r == stake(c, sender, Now, g)
             old == getUserStakeInfo(c, sender)
         IN r.ok =>
              /\ r.s.stakers[sender].totalRewardsEarned = old.totalRewardsEarned
              /\ r.s.stakers[sender].stakedAmount = old.stakedAmount + g.assetAmount
    /\ LET r == triggerRewardDistribution(c, adminAddress, Now)
       IN (Due(c, Now) /\ r.ok) =>
            \A a \in Accounts :
              Staking(a) =>
                LET due == stakers[a].stakedAmount * r.s.accumulatedRewardsPerShare
                             - stakers[a].rewardDebt
                IN /\ r.s.stakers[a].stakedAmount = stakers[a].stakedAmount + due
                   /\ r.s.stakers[a].totalRewardsEarned =
                        stakers[a].totalRewardsEarned + due
                   /\ Pending(r.s, a) = 0

\* C32: getCurrentAPY returns 0 when totalStaked = 0 and otherwise, for every
\* weeklyRewards and totalStaked it answers for, returns
\* (52 * weeklyRewards * 10000) div totalStaked, the annual reward rate in
\* units of 1/10000.
C32_APYBasisPoints ==
  LET r == getCurrentAPY(Cur, ApyUintMax)
  IN /\ totalStaked = 0 => (r.ok /\ r.v = 0)
     /\ (totalStaked > 0 /\ r.ok) =>
          r.v = (52 * weeklyRewards * 10000) \div totalStaked

C34_NoWraparound ==
  [](
    LET c == Cur
        old(a) == getUserStakeInfo(c, a).stakedAmount
    IN
      /\ \A x \in {totalStaked, lastRewardTime, minimumStake, rewardPool,
                   accumulatedRewardsPerShare, weeklyRewards, rewardPeriod} : Fits(x)
      /\ rewardPool = poolLedger
      /\ \A a \in Accounts :
           stakers[a].exists =>
             /\ Fits(stakers[a].stakedAmount) /\ Fits(stakers[a].rewardDebt)
             /\ Fits(stakers[a].firstStakeTime) /\ Fits(stakers[a].lastStakeTime)
             /\ \E k \in 0..UintMax :
                  stakers[a].rewardDebt = stakers[a].stakedAmount * k
      /\ \A sender \in Accounts, n \in 1..UintMax :
           LET g == Group(2, "axfer", currentApplicationAddress, n, asset)
           IN ( \/ ~Fits(old(sender) + n)
                \/ ~Fits((old(sender) + n) * accumulatedRewardsPerShare)
                \/ ~Fits(totalStaked + n) )
              => ~stake(c, sender, Now, g).ok
      /\ \A sender \in Accounts, n \in 1..UintMax :
           (n <= old(sender) /\ ~Fits((old(sender) - n) * accumulatedRewardsPerShare))
             => ~withdraw(c, sender, n).ok
      /\ \A a \in Accounts :
           ~Fits(old(a) * accumulatedRewardsPerShare) =>
             (~getPendingRewards(c, a).ok /\ ~getUserStats(c, a).ok)
      /\ (totalStaked > 0 /\ ~Fits(52 * weeklyRewards * 100)) =>
           (~getCurrentAPY(c, UintMax).ok /\ ~getContractStats(c, UintMax).ok)
      /\ \A g \in RewardGroups :
           ~Fits(rewardPool + g.assetAmount) => ~addRewards(c, adminAddress, g).ok
      /\ ( \/ ~Fits(lastRewardTime + rewardPeriod)
           \/ /\ Due(c, Now) /\ rewardPeriod > 0
              /\ LET e == weeklyRewards * PeriodsElapsed(c, Now)
                 IN \/ ~Fits(e)
                    \/ ~Fits(accumulatedRewardsPerShare + (e \div totalStaked))
                    \/ ~Fits(rewardPool - e) )
         => /\ ~triggerRewardDistribution(c, adminAddress, Now).ok
            /\ \A v \in {0, UintMax} :
                 /\ ~updateWeeklyRewards(c, adminAddress, Now, v).ok
                 /\ ~updateRewardPeriod(c, adminAddress, Now, v).ok
  )

\* an account's next unit of stake would overflow its rewardDebt while the
\* emission now due would take the pool below 0
C34_Witness ==
  /\ Due(Cur, Now) /\ rewardPeriod > 0
  /\ ~Fits(rewardPool - weeklyRewards * PeriodsElapsed(Cur, Now))
  /\ \E a \in Accounts :
       /\ Staking(a)
       /\ Fits(stakers[a].stakedAmount + 1)
       /\ Fits(totalStaked + 1)
       /\ ~Fits((stakers[a].stakedAmount + 1) * accumulatedRewardsPerShare)

\* C35: stake and withdraw discard accrued rewards instead of paying them:
\* right after a successful stake or withdraw the caller's pending reward is
\* exactly 0, whatever it was before, the caller's totalRewardsEarned is
\* unchanged, stakedAmount moves by the amount alone and the only transfer
\* submitted is withdraw's transfer of the amount; totalRewardsEarned is 0 in
\* every record of every reachable state.
C35_RewardsDiscarded ==
  LET c == Cur
  IN
    /\ \A a \in Accounts : stakers[a].exists => stakers[a].totalRewardsEarned = 0
    /\ \A sender \in Accounts :
         LET old == getUserStakeInfo(c, sender)
         IN /\ \A g \in Transfers(c) :
                 LET r == stake(c, sender, Now, g)
                 IN r.ok =>
                      /\ Pending(r.s, sender) = 0
                      /\ getPendingRewards(r.s, sender) = [ok |-> TRUE, v |-> 0]
                      /\ r.s.stakers[sender].totalRewardsEarned = old.totalRewardsEarned
                      /\ r.s.stakers[sender].stakedAmount =
                           old.stakedAmount + g.assetAmount
                      /\ r.itxn = <<>>
            /\ \A amount \in Amounts :
                 LET r == withdraw(c, sender, amount)
                 IN r.ok =>
                      /\ Pending(r.s, sender) = 0
                      /\ getPendingRewards(r.s, sender) = [ok |-> TRUE, v |-> 0]
                      /\ r.s.stakers[sender].totalRewardsEarned = old.totalRewardsEarned
                      /\ r.s.stakers[sender].stakedAmount = old.stakedAmount - amount
                      /\ Len(r.itxn) = 1
                      /\ r.itxn[1].assetAmount = amount

\* sum over the accounts in S of the pending reward
RECURSIVE SumPending(_, _)
SumPending(s, S) ==
  IF S = {} THEN 0
  ELSE LET a == CHOOSE x \in S : TRUE
       IN Pending(s, a) + SumPending(s, S \ {a})

\* C36: solvency: in every reachable state the amount of the staking asset
\* the contract holds (the companion transfers of the committed stake and
\* addRewards calls minus the transfers withdraw and
\* emergencyWithdrawRewards sent) is at least totalStaked + rewardPool, and
\* the difference is the sum of the amounts the accumulator advances emitted.
C36_Solvency ==
  /\ held >= totalStaked + rewardPool
  /\ held - (totalStaked + rewardPool) = emitted

\* stake and pool are present, rewards have been emitted and one account has
\* withdrawn all it staked
C36_Witness ==
  /\ audit
  /\ totalStaked > 0
  /\ rewardPool > 0
  /\ emitted > 0
  /\ \E a \in Accounts : stakers[a].exists /\ stakers[a].stakedAmount = 0

\* C37: rewards are never over-allocated under the truncating division: in
\* every reachable state the sum over all accounts of the pending reward
\* (stakedAmount * accumulatedRewardsPerShare - rewardDebt) is at most the
\* sum of the amounts the accumulator advances have deducted from rewardPool.
C37_NoOverAllocation ==
  SumPending(Cur, Accounts) <= emitted

\* the result of every admin-only call the admin can make at time now in
\* state s, for every argument
AdminCalls(s, now) ==
  {triggerRewardDistribution(s, s.adminAddress, now)}
  \cup {updateWeeklyRewards(s, s.adminAddress, now, v) : v \in Amounts}
  \cup {updateRewardPeriod(s, s.adminAddress, now, v) : v \in Amounts}
  \cup {emergencyWithdrawRewards(s, s.adminAddress, v) : v \in Amounts}
  \cup {updateAdmin(s, s.adminAddress, a) : a \in Accounts}
  \cup {addRewards(s, s.adminAddress, g) : g \in RewardGroups}
  \cup {deleteUserBox(s, s.adminAddress, a) : a \in Accounts}

\* the full withdrawal of account a in state s succeeds and sends a's whole
\* stake
WithdrawsAll(s, a) ==
  LET staked == getUserStakeInfo(s, a).stakedAmount
      r == withdraw(s, a, staked)
  IN /\ r.ok
     /\ r.itxn = <<[assetReceiver |-> a, assetAmount |-> staked, xferAsset |-> s.asset]>>
     /\ r.s.stakers[a].stakedAmount = 0

\* C38: principal is always withdrawable: in every reachable state an account
\* with stakedAmount s > 0 can call withdraw(s) successfully, the contract
\* holds the s units the call sends, and the call still succeeds after any
\* call the admin makes, whatever rewardPool, accumulatedRewardsPerShare,
\* weeklyRewards, rewardPeriod, lastRewardTime and the time are.
C38_PrincipalWithdrawable ==
  LET c == Cur
  IN
    \A a \in Accounts :
      stakers[a].exists /\ stakers[a].stakedAmount > 0 =>
        /\ WithdrawsAll(c, a)
        /\ held >= stakers[a].stakedAmount
        /\ \A q \in AdminCalls(c, Now) :
             q.ok => (WithdrawsAll(q.s, a)
                      /\ held - Sent(q.itxn) >= stakers[a].stakedAmount)

\* C39: updateRewardPeriod accepts every new period, 0 included, whenever
\* its advance succeeds, and a period of 0 blocks the accumulator: while
\* rewardPeriod = 0 and totalStaked > 0 every call of
\* triggerRewardDistribution, updateWeeklyRewards and updateRewardPeriod
\* fails, and no step changes accumulatedRewardsPerShare, lastRewardTime or
\* rewardPeriod; once totalStaked is 0 again the admin can set a period.
C39_ZeroPeriodBlocks ==
  /\ [](LET c == Cur
            u == updateRewards(c, Now)
        IN
          /\ \A v \in Amounts :
               LET r == updateRewardPeriod(c, adminAddress, Now, v)
               IN r.ok = u.ok /\ (r.ok => r.s.rewardPeriod = v)
          /\ (rewardPeriod = 0 /\ totalStaked > 0) =>
               /\ ~u.ok
               /\ \A sender \in Accounts :
                    /\ ~triggerRewardDistribution(c, sender, Now).ok
                    /\ \A v \in Amounts :
                         /\ ~updateWeeklyRewards(c, sender, Now, v).ok
                         /\ ~updateRewardPeriod(c, sender, Now, v).ok
          /\ (rewardPeriod = 0 /\ totalStaked = 0) =>
               \A v \in Amounts : updateRewardPeriod(c, adminAddress, Now, v).ok)
  /\ [][ (rewardPeriod = 0 /\ totalStaked > 0) =>
           /\ accumulatedRewardsPerShare' = accumulatedRewardsPerShare
           /\ lastRewardTime' = lastRewardTime
           /\ rewardPeriod' = 0
       ]_vars

\* the period was set to 0 and the clock has moved on with stake present, the
\* accumulator standing where an earlier advance left it
C39_Witness ==
  /\ initialized
  /\ adminAddress \in Accounts
  /\ rewardPeriod = 0
  /\ totalStaked > 0
  /\ accumulatedRewardsPerShare > 0
  /\ lastRewardTime < Now

====
